---- MODULE Spec2Model ----
(***************************************************************************)
(* Model of sandbox/xray/demo_xray.ipynb: a notebook that loads a cached   *)
(* Landsat stack from an .npz archive, derives the labels of the three     *)
(* axes (bands, time, col), wraps the raw array in a labeled array and     *)
(* performs one two-stage label-based selection.                           *)
(*                                                                         *)
(* Strings that the notebook slices (scene identifiers) are sequences of   *)
(* one-character strings.  Python positions are 0-based, positions of the  *)
(* model are 1-based: Python's s[9:16] is SubSeq(s, 10, 16), and the       *)
(* element Y[i, t, c] of the notebook is Y.data[i+1][t+1][c+1].            *)
(***************************************************************************)
EXTENDS Integers, Sequences, FiniteSets, TLC

(***************************************************************************)
(* Bounds of the model.                                                    *)
(***************************************************************************)
MaxTime == 2        \* most scene identifiers / time steps in an archive
NumPatterns == 2    \* number of distinct fillings of the raw container

(***************************************************************************)
(* Program constants.                                                      *)
(***************************************************************************)
NumCols == 250      \* cols = range(250)
SliceStart == 9     \* s[9:16]
SliceStop == 16     \* s[9:16]
SelCol == 100       \* .sel(col=100)
SelBand == "Blue"   \* .sel(bands='Blue')

band_names == <<"Blue", "Green", "Red", "NIR", "SWIR1", "SWIR2", "Thermal", "Mask">>

\* range(n) as the sequence 0, 1, ..., n-1
Range(n) == [k \in 1..n |-> k - 1]

\* variant: one column label too many, range(251)
cols_OneMore == Range(NumCols + 1)

\* variant: column labels counted from one, range(1, 251)
cols_OneBased == [k \in 1..NumCols |-> k]

cols == Range(NumCols)

(***************************************************************************)
(* Python slicing of a sequence: s[a:b] for 0 <= a <= b, clipped to the    *)
(* length of s (a slice never fails, it gets shorter or empty).            *)
(***************************************************************************)
Min(a, b) == IF a <= b THEN a ELSE b

PySlice(s, a, b) == SubSeq(s, a + 1, Min(b, Len(s)))

\* variant: an 8-character slice, s[9:17]
DateSubstr_EightChars(s) == PySlice(s, SliceStart, SliceStop + 1)

\* [s[9:16] for s in image_IDs], one element
DateSubstr(s) == PySlice(s, SliceStart, SliceStop)

(***************************************************************************)
(* pd.to_datetime(..., format='%Y%j'): strptime with a four digit year     *)
(* followed by the day of the year.  The directive %Y is \d\d\d\d and %j   *)
(* is one to three digits whose value is in 1..366; the whole string must  *)
(* be consumed.  The date is the (julian-1)-th day after January 1st of    *)
(* the year (so day 366 of a common year is January 1st of the next one),  *)
(* and it must fit a datetime64[ns] (about 1677-09-22 .. 2262-04-11).      *)
(***************************************************************************)
DigitChars == <<"0", "1", "2", "3", "4", "5", "6", "7", "8", "9">>

IsDigit(ch) == \E k \in 1..10 : DigitChars[k] = ch

DigitVal(ch) == (CHOOSE k \in 1..10 : DigitChars[k] = ch) - 1

\* the number written by the first n characters of s
RECURSIVE NumValUpTo(_, _)
NumValUpTo(s, n) == IF n = 0 THEN 0
                    ELSE 10 * NumValUpTo(s, n - 1) + DigitVal(s[n])

NumVal(s) == NumValUpTo(s, Len(s))

IsLeap(y) == (y % 4 = 0 /\ y % 100 # 0) \/ y % 400 = 0

DaysInYear(y) == IF IsLeap(y) THEN 366 ELSE 365

DaysInMonth(y, m) == IF m = 2 THEN (IF IsLeap(y) THEN 29 ELSE 28)
                     ELSE IF m \in {4, 6, 9, 11} THEN 30 ELSE 31

DaysBeforeMonthCommon == <<0, 31, 59, 90, 120, 151, 181, 212, 243, 273, 304, 334>>

DaysBeforeMonth(y, m) == DaysBeforeMonthCommon[m] + (IF m > 2 /\ IsLeap(y) THEN 1 ELSE 0)

\* days from 0001-01-01 to January 1st of year y (proleptic Gregorian)
DaysBeforeYear(y) == 365 * (y - 1) + ((y - 1) \div 4) - ((y - 1) \div 100) + ((y - 1) \div 400)

\* days of a date since 1970-01-01
EpochDays(d) == (DaysBeforeYear(d.year) + DaysBeforeMonth(d.year, d.month) + d.day - 1)
                - DaysBeforeYear(1970)

\* datetime64[ns] holds +-(2^63 - 1) ns around 1970, i.e. whole days -106751..106751
MaxNsDays == 106751

\* variant: the day of the year taken as an offset from January 1st
DateOfOrdinal_Offset(y, julian) ==
    LET dd == IF julian >= DaysInYear(y) THEN julian + 1 - DaysInYear(y) ELSE julian + 1
        yy == IF julian >= DaysInYear(y) THEN y + 1 ELSE y
        mm == CHOOSE m \in 1..12 :
                 DaysBeforeMonth(yy, m) < dd /\ dd <= DaysBeforeMonth(yy, m) + DaysInMonth(yy, m)
    IN [year |-> yy, month |-> mm, day |-> dd - DaysBeforeMonth(yy, mm)]

\* the julian-th day counted from January 1st of year y
DateOfOrdinal(y, julian) ==
    LET yy == IF julian > DaysInYear(y) THEN y + 1 ELSE y
        dd == IF julian > DaysInYear(y) THEN julian - DaysInYear(y) ELSE julian
        mm == CHOOSE m \in 1..12 :
                 DaysBeforeMonth(yy, m) < dd /\ dd <= DaysBeforeMonth(yy, m) + DaysInMonth(yy, m)
    IN [year |-> yy, month |-> mm, day |-> dd - DaysBeforeMonth(yy, mm)]

\* does the string match %Y%j
IsYj(s) == /\ Len(s) \in 5..7
           /\ \A k \in 1..Len(s) : IsDigit(s[k])
           /\ NumVal(SubSeq(s, 5, Len(s))) \in 1..366

\* the value to_datetime gives for a string that matches %Y%j (the year and
\* the day of the year are computed once and handed over as values)
ParseYj(s) == CHOOSE d \in {DateOfOrdinal(y, j) : y \in {NumValUpTo(s, 4)},
                                                  j \in {NumVal(SubSeq(s, 5, Len(s)))}} : TRUE

\* can to_datetime convert the string
Parses(s) == /\ IsYj(s)
             /\ NumValUpTo(s, 4) >= 1
             /\ \E n \in {EpochDays(d) : d \in {ParseYj(s)}} : n \in (0 - MaxNsDays)..MaxNsDays

\* a calendar date
ValidDate(d) == /\ d.month \in 1..12
                /\ d.day \in 1..DaysInMonth(d.year, d.month)

(***************************************************************************)
(* Scene identifiers an archive may hold, as sequences of characters.      *)
(***************************************************************************)
ID_1993009 == <<"L","T","5","0","2","2","0","4","9","1","9","9","3","0","0","9","X","X","X","0","1">>
ID_2000366 == <<"L","E","7","0","2","2","0","4","9","2","0","0","0","3","6","6","E","D","C","0","0">>
ID_Short   == <<"L","T","5","0","2","2","0","4","9","1","9","9","3","0","9">>
ID_Day000  == <<"L","T","5","0","2","2","0","4","9","1","9","9","3","0","0","0","X","X","X","0","1">>

IDPool == {ID_1993009, ID_2000366, ID_Short, ID_Day000}

RECURSIVE SeqsUpTo(_, _)
SeqsUpTo(S, n) == IF n = 0 THEN {<<>>}
                  ELSE LET shorter == SeqsUpTo(S, n - 1)
                       IN shorter \cup {Append(q, x) : q \in {r \in shorter : Len(r) = n - 1}, x \in S}

(***************************************************************************)
(* The raw numeric container: a three-dimensional array of int16.          *)
(* An array is its shape and its elements as nested sequences.             *)
(***************************************************************************)
Int16(x) == ((x + 32768) % 65536) - 32768

\* element (i, t, c) of filling p of a container of the given shape; the
\* multiplier is odd, so that different positions hold different values
YValue(p, shape, i, t, c) ==
    Int16((2 * p - 1) * 7919 * (((i - 1) * shape[2] + (t - 1)) * shape[3] + c) - 9999)

EmptyArray == [shape |-> <<0, 0, 0>>, data |-> <<>>]

\* the archive's entry 'Y', decompressed
Materialize(a) ==
    [shape |-> a.shape,
     data  |-> [i \in 1..a.shape[1] |-> [t \in 1..a.shape[2] |-> [c \in 1..a.shape[3] |->
                   YValue(a.pattern, a.shape, i, t, c)]]]]

(***************************************************************************)
(* The archive file at the fixed path: missing, not a readable archive,    *)
(* lacking one of the two entries, or holding 'image_IDs' and 'Y'.  The    *)
(* shape of 'Y' is the expected one or differs from it on some axis.       *)
(***************************************************************************)
ShapesFor(n) == {<<8, n, 250>>, <<7, n, 250>>, <<8, n, 249>>, <<8, n, 251>>, <<9, n + 1, 251>>}

NoContent(kind) == [kind |-> kind, image_IDs |-> <<>>, shape |-> <<0, 0, 0>>, pattern |-> 1]

Archives == {NoContent("missing"), NoContent("badzip"), NoContent("nokey")}
            \cup {[kind |-> "ok", image_IDs |-> ids, shape |-> sh, pattern |-> p] :
                    ids \in SeqsUpTo(IDPool, MaxTime),
                    sh \in UNION {ShapesFor(n) : n \in 0..MaxTime},
                    p \in 1..NumPatterns}

(***************************************************************************)
(* The labeled array.  dims names the axes in order, coords gives the      *)
(* labels of each axis, scalars the label kept for each axis a selection   *)
(* has dropped, shape and data are those of the underlying array.          *)
(***************************************************************************)
EmptyDA == [dims |-> <<>>, coords |-> <<>>, scalars |-> <<>>, shape |-> <<>>, data |-> <<>>]

\* variant: only the number of axes is compared
CoordsFit_RankOnly(arr, cs) == Len(cs) = Len(arr.shape)

\* variant: labels may outnumber the elements of their axis
CoordsFit_AtLeast(arr, cs) == /\ Len(cs) = Len(arr.shape)
                              /\ \A k \in 1..Len(cs) : Len(cs[k][2]) >= arr.shape[k]

\* xray.DataArray(Y, [(name, labels), ...]) is built when there is one
\* (name, labels) pair per axis and each axis is as long as its labels
CoordsFit(arr, cs) == /\ Len(cs) = Len(arr.shape)
                      /\ \A k \in 1..Len(cs) : Len(cs[k][2]) = arr.shape[k]

\* variant: the fill value is written over the negative elements
DataArray_Masked(arr, cs) ==
    [dims    |-> [k \in 1..Len(cs) |-> cs[k][1]],
     coords  |-> [d \in {cs[k][1] : k \in 1..Len(cs)} |->
                    cs[CHOOSE k \in 1..Len(cs) : cs[k][1] = d][2]],
     scalars |-> <<>>,
     shape   |-> arr.shape,
     data    |-> [i \in 1..Len(arr.data) |-> [t \in 1..Len(arr.data[i]) |->
                    [c \in 1..Len(arr.data[i][t]) |->
                        IF arr.data[i][t][c] < 0 THEN 0 ELSE arr.data[i][t][c]]]]]

DataArray(arr, cs) ==
    [dims    |-> [k \in 1..Len(cs) |-> cs[k][1]],
     coords  |-> [d \in {cs[k][1] : k \in 1..Len(cs)} |->
                    cs[CHOOSE k \in 1..Len(cs) : cs[k][1] = d][2]],
     scalars |-> <<>>,
     shape   |-> arr.shape,
     data    |-> arr.data]

RemoveAt(s, k) == [j \in 1..(Len(s) - 1) |-> IF j < k THEN s[j] ELSE s[j + 1]]

\* the elements at position pos of axis k (numpy's take along an axis)
RECURSIVE Take(_, _, _)
Take(v, k, pos) == IF k = 1 THEN v[pos]
                   ELSE [j \in 1..Len(v) |-> Take(v[j], k - 1, pos)]

SelFail == [ok |-> FALSE, da |-> EmptyDA]

\* variant: whatever axis is selected on, the first axis name is dropped
Sel_DropFirst(da, dim, label) ==
    IF \A k \in 1..Len(da.dims) : da.dims[k] # dim THEN SelFail
    ELSE LET k    == CHOOSE j \in 1..Len(da.dims) : da.dims[j] = dim
             labs == da.coords[dim]
             hits == {j \in 1..Len(labs) : labs[j] = label}
         IN IF hits = {} THEN SelFail
            ELSE LET pos == CHOOSE j \in hits : \A h \in hits : j <= h
                 IN [ok |-> TRUE,
                     da |-> [dims    |-> RemoveAt(da.dims, 1),
                             coords  |-> [d \in (DOMAIN da.coords) \ {dim} |-> da.coords[d]],
                             scalars |-> [d \in (DOMAIN da.scalars) \cup {dim} |->
                                            IF d = dim THEN label ELSE da.scalars[d]],
                             shape   |-> RemoveAt(da.shape, k),
                             data    |-> Take(da.data, k, pos)]]

\* da.sel(dim=label): the position of the label on the axis is looked up by
\* equality; a label the axis does not have is a KeyError; otherwise the
\* axis is dropped, the label is kept as a scalar coordinate
Sel(da, dim, label) ==
    IF \A k \in 1..Len(da.dims) : da.dims[k] # dim THEN SelFail
    ELSE LET k    == CHOOSE j \in 1..Len(da.dims) : da.dims[j] = dim
             labs == da.coords[dim]
             hits == {j \in 1..Len(labs) : labs[j] = label}
         IN IF hits = {} THEN SelFail
            ELSE LET pos == CHOOSE j \in hits : \A h \in hits : j <= h
                 IN [ok |-> TRUE,
                     da |-> [dims    |-> RemoveAt(da.dims, k),
                             coords  |-> [d \in (DOMAIN da.coords) \ {dim} |-> da.coords[d]],
                             scalars |-> [d \in (DOMAIN da.scalars) \cup {dim} |->
                                            IF d = dim THEN label ELSE da.scalars[d]],
                             shape   |-> RemoveAt(da.shape, k),
                             data    |-> Take(da.data, k, pos)]]

\* da.sel(bands=b).sel(col=c)
SelBandsCol(da, b, c) == LET r == Sel(da, "bands", b)
                         IN IF r.ok THEN Sel(r.da, "col", c) ELSE r

\* da.sel(col=c).sel(bands=b)
SelColBands(da, b, c) == LET r == Sel(da, "col", c)
                         IN IF r.ok THEN Sel(r.da, "bands", b) ELSE r

(***************************************************************************)
(* State of a run of the notebook.                                         *)
(***************************************************************************)
VARIABLES
    archive,    \* the file at the path given to np.load
    reads,      \* how many times the file has been opened
    pc,         \* the statement group to run next, "done" or "error"
    failedAt,   \* the statement group whose exception ended the run
    ns,         \* the names bound in the kernel's namespace
    image_IDs,  \* z['image_IDs']
    Y,          \* z['Y']
    dates,      \* the time labels
    dat,        \* the labeled array
    req,        \* the labels and stage order of the latest selection
    out,        \* what the latest selection displayed
    first,      \* the earliest bands-then-col selection and what it displayed
    rerun       \* the latest selection repeats the labels of the earliest

vars == <<archive, reads, pc, failedAt, ns, image_IDs, Y, dates, dat, req, out, first, rerun>>

NoReq == [b |-> "", c |-> 0, order |-> "none"]

NoOut == [status |-> "none", da |-> EmptyDA]

Init == /\ archive \in Archives
        /\ reads = 0
        /\ pc = "load"
        /\ failedAt = "none"
        /\ ns = {}
        /\ image_IDs = <<>>
        /\ Y = EmptyArray
        /\ dates = <<>>
        /\ dat = EmptyDA
        /\ req = NoReq
        /\ out = NoOut
        /\ first = [req |-> NoReq, out |-> NoOut]
        /\ rerun = FALSE

\* an exception escapes the statement group: nothing catches it
Raise(step) == /\ pc' = "error"
               /\ failedAt' = step

(***************************************************************************)
(* z = np.load(path); image_IDs, Y = z['image_IDs'], z['Y']                *)
(***************************************************************************)
Load ==
    /\ pc = "load"
    /\ reads' = reads + 1
    /\ IF archive.kind \in {"missing", "badzip"}
       THEN /\ Raise("load")
            /\ UNCHANGED <<ns, image_IDs, Y>>
       ELSE IF archive.kind = "nokey"
       THEN /\ Raise("load")
            /\ ns' = ns \cup {"z"}
            /\ UNCHANGED <<image_IDs, Y>>
       ELSE /\ ns' = ns \cup {"z", "image_IDs", "Y"}
            /\ image_IDs' = archive.image_IDs
            /\ Y' = Materialize(archive)
            /\ pc' = "labels"
            /\ UNCHANGED failedAt
    /\ UNCHANGED <<archive, dates, dat, req, out, first, rerun>>

\* variant: identifiers whose date does not parse are skipped
DeriveLabels_Coerce ==
    /\ pc = "labels"
    /\ dates' = SelectSeq([k \in 1..Len(image_IDs) |->
                              IF Parses(DateSubstr(image_IDs[k]))
                              THEN ParseYj(DateSubstr(image_IDs[k]))
                              ELSE [year |-> 0, month |-> 0, day |-> 0]],
                          LAMBDA d : d.year # 0)
    /\ ns' = ns \cup {"band_names", "dates", "cols"}
    /\ pc' = "construct"
    /\ UNCHANGED <<archive, reads, failedAt, image_IDs, Y, dat, req, out, first, rerun>>

(***************************************************************************)
(* band_names = [...]; dates = pd.to_datetime([s[9:16] for s in            *)
(* image_IDs], format='%Y%j'); cols = range(250)                           *)
(***************************************************************************)
DeriveLabels ==
    /\ pc = "labels"
    /\ IF \A k \in 1..Len(image_IDs) : Parses(DateSubstr(image_IDs[k]))
       THEN /\ dates' = [k \in 1..Len(image_IDs) |-> ParseYj(DateSubstr(image_IDs[k]))]
            /\ ns' = ns \cup {"band_names", "dates", "cols"}
            /\ pc' = "construct"
            /\ UNCHANGED failedAt
       ELSE /\ Raise("labels")
            /\ ns' = ns \cup {"band_names"}
            /\ UNCHANGED dates
    /\ UNCHANGED <<archive, reads, image_IDs, Y, dat, req, out, first, rerun>>

(***************************************************************************)
(* dat = xray.DataArray(Y, [('bands', band_names), ('time', dates),        *)
(*                          ('col', cols)])                                *)
(***************************************************************************)
CoordList == <<(<<"bands", band_names>>), (<<"time", dates>>), (<<"col", cols>>)>>

Construct ==
    /\ pc = "construct"
    /\ IF CoordsFit(Y, CoordList)
       THEN /\ dat' = DataArray(Y, CoordList)
            /\ ns' = ns \cup {"dat"}
            /\ pc' = "select"
            /\ UNCHANGED failedAt
       ELSE /\ Raise("construct")
            /\ UNCHANGED <<dat, ns>>
    /\ UNCHANGED <<archive, reads, image_IDs, Y, dates, req, out, first, rerun>>

(***************************************************************************)
(* A selection on dat with labels b and c, and the display of its result.  *)
(***************************************************************************)
Shown(r) == IF r.ok THEN [status |-> "ok", da |-> r.da]
            ELSE [status |-> "KeyError", da |-> EmptyDA]

Record(b, c, order, r) ==
    /\ req' = [b |-> b, c |-> c, order |-> order]
    /\ out' = Shown(r)
    /\ first' = IF first.req.order = "none" /\ order = "bands,col"
                THEN [req |-> req', out |-> out'] ELSE first
    /\ rerun' = (first.req = req')

\* dat.sel(bands='Blue').sel(col=100), the last statement of the notebook
SelectDisplay ==
    /\ pc = "select"
    /\ LET r == SelBandsCol(dat, SelBand, SelCol)
       IN /\ Record(SelBand, SelCol, "bands,col", r)
          /\ IF r.ok THEN pc' = "done" /\ UNCHANGED failedAt
             ELSE Raise("select")
    /\ UNCHANGED <<archive, reads, ns, image_IDs, Y, dates, dat>>

Next == Load \/ DeriveLabels \/ Construct \/ SelectDisplay

Spec == Init /\ [][Next]_vars

\* the cells run to the end: no statement waits for anything
FairSpec == Spec /\ WF_vars(Next)

(***************************************************************************)
(* The selection as a function of its labels: after the construction, the  *)
(* selection is applied to labels drawn from SelBands and SelCols, in      *)
(* either stage order, any number of times.                                *)
(***************************************************************************)
SelBands == {SelBand, "Mask", "Cirrus"}

SelCols == {SelCol, 250}

\* variant: the selection clears the elements it has displayed
SelApply_InPlace(b, c) ==
    /\ pc = "select"
    /\ Record(b, c, "bands,col", SelBandsCol(dat, b, c))
    /\ dat' = IF SelBandsCol(dat, b, c).ok
              THEN LET i == CHOOSE k \in 1..Len(band_names) : band_names[k] = b
                   IN [dat EXCEPT !.data[i] = [t \in 1..Len(@) |-> [@[t] EXCEPT ![c + 1] = 0]]]
              ELSE dat
    /\ UNCHANGED <<archive, reads, pc, failedAt, ns, image_IDs, Y, dates>>

SelApply(b, c) ==
    /\ pc = "select"
    /\ Record(b, c, "bands,col", SelBandsCol(dat, b, c))
    /\ UNCHANGED <<archive, reads, pc, failedAt, ns, image_IDs, Y, dates, dat>>

SelApplyRev(b, c) ==
    /\ pc = "select"
    /\ Record(b, c, "col,bands", SelColBands(dat, b, c))
    /\ UNCHANGED <<archive, reads, pc, failedAt, ns, image_IDs, Y, dates, dat>>

NextSel == \/ Load
           \/ DeriveLabels
           \/ Construct
           \/ \E b \in SelBands, c \in SelCols : SelApply(b, c)
           \/ \E b \in SelBands, c \in SelCols : SelApplyRev(b, c)

SpecSel == Init /\ [][NextSel]_vars

(***************************************************************************)
(* Vocabulary of the properties.                                           *)
(***************************************************************************)
BandLabelSet == {band_names[k] : k \in 1..Len(band_names)}

BandIndex(b) == CHOOSE k \in 1..Len(band_names) : band_names[k] = b

Bound(name) == name \in ns

Selected == req.order # "none"

\* the labeled array has just been built and nothing has been selected yet
Fresh == pc = "select" /\ ~Selected

AllParse == \A k \in 1..Len(image_IDs) : Parses(DateSubstr(image_IDs[k]))

\* the container's axes against the 8 bands, the identifiers, the 250 columns
Mismatch == Bound("Y") /\ Y.shape # <<8, Len(image_IDs), 250>>

\* r is the one-dimensional array over time of band position i and column c
IsTimeSeries(da, i, c) ==
    /\ da.dims = <<"time">>
    /\ da.shape = <<Y.shape[2]>>
    /\ Len(da.data) = Len(image_IDs)
    /\ da.coords["time"] = dates
    /\ \A t \in 1..Y.shape[2] : da.data[t] = Y.data[i][t][c + 1]

(***************************************************************************)
(* C1: selecting a band name outside the 8 band labels, or a column value  *)
(* outside 0..249, fails with an error and displays no array.              *)
(***************************************************************************)
C1_MissingLabelFails ==
    /\ (Selected /\ (req.b \notin BandLabelSet \/ req.c \notin 0..249))
          => (out.status = "KeyError" /\ out.da = EmptyDA)
    /\ Fresh => /\ \A b \in {"Cirrus", "blue", "Blu", ""} :
                      /\ ~SelBandsCol(dat, b, SelCol).ok
                      /\ ~SelColBands(dat, b, SelCol).ok
                /\ \A c \in {-250, -1, 250, 251, 320} :
                      /\ ~SelBandsCol(dat, SelBand, c).ok
                      /\ ~SelColBands(dat, SelBand, c).ok

C1_Witness == /\ Selected /\ req.b = "Blue" /\ req.c = 250
              /\ out.status = "KeyError" /\ Len(image_IDs) > 0

(***************************************************************************)
(* C2: repeating dat.sel(bands=b).sel(col=c) with the same labels, after   *)
(* any other selections, displays exactly what it displayed the first      *)
(* time.                                                                   *)
(***************************************************************************)
C2_RepeatIdentical == rerun => out = first.out

C2_Witness == rerun /\ out.status = "ok" /\ Len(out.da.data) > 0

(***************************************************************************)
(* C3 as stated: once the time labels exist, every identifier's date       *)
(* substring has length 7, is in year + day-of-year format and parses to   *)
(* a valid calendar date, which is the identifier's time label.            *)
(***************************************************************************)
C3_Original ==
    Bound("dates") =>
        \A k \in 1..Len(image_IDs) :
            LET s == DateSubstr(image_IDs[k])
            IN /\ Len(s) = 7
               /\ IsYj(s)
               /\ ValidDate(dates[k])
               /\ dates[k] = ParseYj(s)

(***************************************************************************)
(* C3 amended: once the time labels exist, every identifier's date         *)
(* substring has at most 7 characters (exactly 7 when the identifier has   *)
(* at least 16), is in year + day-of-year format, and its time label is    *)
(* the valid calendar date that lies (day of year - 1) days after January  *)
(* 1st of the year written in the identifier.                              *)
(***************************************************************************)
C3_DateLabels ==
    Bound("dates") =>
        /\ Len(dates) = Len(image_IDs)
        /\ \A k \in 1..Len(image_IDs) :
               LET id  == image_IDs[k]
                   s   == DateSubstr(id)
                   yr  == NumVal(SubSeq(id, 10, 13))
                   doy == NumVal(SubSeq(id, 14, Min(16, Len(id))))
               IN /\ Len(s) <= 7
                  /\ (Len(id) >= 16 => Len(s) = 7)
                  /\ IsYj(s)
                  /\ doy \in 1..366
                  /\ ValidDate(dates[k])
                  /\ EpochDays(dates[k]) = EpochDays([year |-> yr, month |-> 1, day |-> 1]) + doy - 1
                  /\ (Bound("dat") => dat.coords["time"][k] = dates[k])

C3_Witness == /\ Bound("dat")
              /\ \E k \in 1..Len(image_IDs) : image_IDs[k] = ID_Short
              /\ \E k \in 1..Len(image_IDs) : image_IDs[k] = ID_2000366

(***************************************************************************)
(* C4 as stated: the date substring extracted from each identifier has 8   *)
(* characters.                                                             *)
(***************************************************************************)
C4_Original ==
    Bound("dates") => \A k \in 1..Len(image_IDs) : Len(DateSubstr(image_IDs[k])) = 8

(***************************************************************************)
(* C4 amended: the date substring extracted from each identifier is its    *)
(* characters at the 0-based offsets 9..15, 7 characters (fewer when the   *)
(* identifier ends earlier), and the time label is that substring parsed.  *)
(***************************************************************************)
C4_SevenCharacters ==
    Bound("image_IDs") =>
        \A k \in 1..Len(image_IDs) :
            LET id == image_IDs[k]
                s  == DateSubstr(id)
            IN /\ Len(s) = (IF Len(id) <= 9 THEN 0 ELSE Min(7, Len(id) - 9))
               /\ \A j \in 1..Len(s) : s[j] = id[9 + j]
               /\ (Bound("dates") => dates[k] = ParseYj([j \in 1..Min(7, Len(id) - 9) |-> id[9 + j]]))

C4_Witness == /\ Bound("dates")
              /\ \E k \in 1..Len(image_IDs) : Len(DateSubstr(image_IDs[k])) = 7

(***************************************************************************)
(* C5: the time labels are one per identifier, in identifier order, and    *)
(* whenever the labeled array exists the number of identifiers equals the  *)
(* container's time-axis length and the three axis lengths are those of    *)
(* the band (8), time (number of identifiers) and column (250) labels.     *)
(***************************************************************************)
C5_AxisLengths ==
    /\ Bound("dates") =>
          /\ Len(dates) = Len(image_IDs)
          /\ \A k \in 1..Len(image_IDs) : dates[k] = ParseYj(DateSubstr(image_IDs[k]))
    /\ Bound("dat") =>
          /\ Len(image_IDs) = Y.shape[2]
          /\ dat.shape = <<8, Len(image_IDs), 250>>
          /\ Y.shape = dat.shape
          /\ Len(dat.coords["bands"]) = 8
          /\ Len(dat.coords["time"]) = Len(image_IDs)
          /\ Len(dat.coords["col"]) = 250
          /\ Len(dat.data) = 8
          /\ \A i \in 1..8 : /\ Len(dat.data[i]) = Len(image_IDs)
                             /\ \A t \in 1..Len(image_IDs) : Len(dat.data[i][t]) = 250

C5_Witness == /\ Bound("dat")
              /\ Len(image_IDs) = 2
              /\ image_IDs[1] # image_IDs[2]

C7_SelectionValues ==
    /\ Fresh => \A i \in 1..8 : \A c \in {0, 1, 100, 248, 249} :
                   LET r == SelBandsCol(dat, band_names[i], c)
                   IN r.ok /\ IsTimeSeries(r.da, i, c)
    /\ (req.order = "bands,col" /\ req.b \in BandLabelSet /\ req.c \in 0..249)
          => (out.status = "ok" /\ IsTimeSeries(out.da, BandIndex(req.b), req.c))

C7_Witness == /\ req.order = "bands,col" /\ req.b = "Mask" /\ req.c = 100
              /\ out.status = "ok" /\ Len(out.da.data) > 1

(***************************************************************************)
(* C8: no step changes what was loaded.  The archive is never written and  *)
(* is read once; the container and the identifiers are those of the        *)
(* archive and never change; the time labels never change; the labeled     *)
(* array holds the container's values and the three label sequences and    *)
(* never changes, whatever is selected.                                    *)
(***************************************************************************)
C8_Step ==
    /\ archive' = archive
    /\ reads' \in {reads, reads + 1} /\ reads' <= 1
    /\ (~Bound("Y") /\ Bound("Y")') => (Y' = Materialize(archive) /\ image_IDs' = archive.image_IDs)
    /\ Bound("Y") => (Y' = Y /\ image_IDs' = image_IDs /\ reads' = reads)
    /\ Bound("dates") => dates' = dates
    /\ (~Bound("dat") /\ Bound("dat")') =>
          /\ dat'.data = Y.data
          /\ dat'.coords["bands"] = <<"Blue", "Green", "Red", "NIR", "SWIR1", "SWIR2", "Thermal", "Mask">>
          /\ dat'.coords["time"] = dates
          /\ dat'.coords["col"] = [k \in 1..250 |-> k - 1]
    /\ Bound("dat") => dat' = dat

C8_NoMutation == [][C8_Step]_vars

C8_Witness == /\ Bound("dat") /\ Len(image_IDs) > 0
              /\ first.out.status = "ok" /\ out.status = "KeyError"

(***************************************************************************)
(* C9: the steps run in the order load, labels, construction, selection,   *)
(* each at most once; a missing or malformed archive, an unparseable date, *)
(* an axis-length mismatch or a missing label ends the run at its step;    *)
(* nothing runs after the end; every run ends, with the displayed          *)
(* selection or with an error.                                             *)
(***************************************************************************)
Ended == pc \in {"done", "error"}

C9_Step ==
    /\ ~Ended
    /\ pc = "load" => /\ pc' \in {"labels", "error"}
                      /\ (pc' = "error") = (archive.kind # "ok")
    /\ pc = "labels" => /\ pc' \in {"construct", "error"}
                        /\ (pc' = "error") = ~AllParse
    /\ pc = "construct" => /\ pc' \in {"select", "error"}
                           /\ (pc' = "error") = Mismatch
    /\ pc = "select" => /\ pc' \in {"done", "error"}
                        /\ (pc' = "error") = (out'.status # "ok")
    /\ (pc' = "error") => failedAt' = pc
    /\ (pc' # "error") => failedAt' = "none"

C9_State ==
    /\ (pc = "done") => (out.status = "ok" /\ failedAt = "none")
    /\ (pc = "error") => (failedAt \in {"load", "labels", "construct", "select"})
    /\ (failedAt = "load") => ~Bound("dates") /\ ~Bound("dat") /\ ~Selected
    /\ (failedAt = "labels") => ~Bound("dates") /\ ~Bound("dat") /\ ~Selected
    /\ (failedAt = "construct") => ~Bound("dat") /\ ~Selected
    /\ reads <= 1

C9_StraightLine == [][C9_Step]_vars /\ []C9_State /\ <>Ended

C9_Witness == /\ pc = "done" /\ out.status = "ok" /\ reads = 1
              /\ req = [b |-> "Blue", c |-> 100, order |-> "bands,col"]
              /\ Len(out.da.data) > 0

(***************************************************************************)
(* C10: selecting by band and then by column gives the same array as       *)
(* selecting by column and then by band when both labels are present, and  *)
(* both orders fail when either label is missing.                          *)
(***************************************************************************)
C10_Commute ==
    /\ Fresh => \A b \in BandLabelSet \cup {"Cirrus"} : \A c \in {-1, 0, 100, 249, 250} :
                   LET r1 == SelBandsCol(dat, b, c)
                       r2 == SelColBands(dat, b, c)
                   IN /\ r1.ok = r2.ok
                      /\ r1.ok = (b \in BandLabelSet /\ c \in 0..249)
                      /\ r1.ok => r1.da = r2.da
    /\ (req.order = "bands,col") => out = Shown(SelColBands(dat, req.b, req.c))
    /\ (req.order = "col,bands") => out = Shown(SelBandsCol(dat, req.b, req.c))

C10_Witness == /\ req.order = "col,bands" /\ req.b = "Mask" /\ req.c = 100
               /\ out.status = "ok" /\ Len(out.da.data) > 1

====
